---- MODULE Spec2Model ----
(***************************************************************************)
(* Model of src/solvers/chop.py: the benchopt Solver adapter around the    *)
(* chop optimizers for l2-regularised logistic regression.                 *)
(*                                                                         *)
(* State: the Solver object's attributes (configuration, X, x0, beta), the *)
(* process-wide warnings filter list, and a heap of array storages so that *)
(* aliasing between tensors and numpy arrays is visible.  One action per   *)
(* method of the Solver: skip, set_objective, run (with run_stochastic and *)
(* run_full_batch inlined, as run calls them), get_result; plus the        *)
(* caller's in-place write to the array get_result handed out.             *)
(*                                                                         *)
(* A Python exception ends the call; the model records its type as the     *)
(* call's outcome together with the attribute assignments made before it.  *)
(***************************************************************************)
EXTENDS Integers, Sequences, FiniteSets, TLC

\* ------------------------------------------------------------------ bounds
\* run(n_iter) is called with n_iter in 0..MaxIter
MaxIter == 2
\* the design matrix has 1..MaxFeatures columns
MaxFeatures == 1

\* ------------------------------------------------------- configuration
\* Solver.parameters, lines 17-26.  'other' stands for any solver name that
\* is not 'pgd' (a Solver constructed outside the declared grid).
Solvers == {"pgd", "other"}
BatchSizes == {"32", "128", "200", "full"}
Normalizations == {"none", "L2", "Linf", "sign"}
Momenta == {"0.0", "0.9"}
Devices == {"cuda", "cpu"}

Configs ==
  [solver : Solvers, line_search : BOOLEAN, stochastic : BOOLEAN,
   batch_size : BatchSizes, normalization : Normalizations,
   momentum : Momenta, device : Devices]

VARIABLES
  cfg,            \* the Solver's parameters (self.solver, self.line_search, ...)
  cudaAvailable,  \* torch.cuda.is_available()
  phase,          \* "constructed", "skip_checked", "ready", "setup_failed"
  skipRes,        \* the pair skip returned
  input,          \* the X, y, lmbd handed to set_objective
  selfX,          \* self.X
  x0,             \* self.x0
  beta,           \* self.beta
  result,         \* the array the last get_result returned
  heap,           \* storage id -> contents, for every live storage
  filters,        \* warnings.filters, most recent first
  lastOp,         \* the last call and how it ended
  lastRun         \* what the most recent run call did

vars == <<cfg, cudaAvailable, phase, skipRes, input, selfX, x0, beta, result,
          heap, filters, lastOp, lastRun>>

\* ------------------------------------------------------------- values
NoTensor == [st |-> 0, dtype |-> "none", device |-> "none"]
NoArray == [st |-> 0]
NoInput == [kind |-> "none", dtype |-> "none", device |-> "none",
            n_samples |-> 0, n_features |-> 0, lmbd |-> "none"]
NoSkip == <<"not called", "">>
NoOp == [op |-> "none", outcome |-> "none"]
NoRun == [called |-> FALSE]

Zeros(n) == [i \in 1..n |-> 0]

\* ---------------------------------------------------------------- skip
MsgCuda == "CUDA is not available."
MsgNotStochastic == "We only run stochastic=False if batch_size=='full'."
MsgFullBatch == "We do not perform full batch optimization with a stochastic optimizer."
MsgLineSearch == "We do not perform line-search with a stochastic optimizer."
MsgNormalization == "Normalizations are not used for full batch optimizers."
MsgMomentum == "Momentum has no impact on full batch optimizers."
None == "None"

\* skip without the line-search rule
SkipDropLineSearch(c, cuda) ==
  IF c.device = "cuda" /\ ~cuda THEN <<TRUE, MsgCuda>>
  ELSE IF ~c.stochastic /\ c.batch_size # "full" THEN <<TRUE, MsgNotStochastic>>
  ELSE IF c.stochastic
    THEN IF c.batch_size = "full" THEN <<TRUE, MsgFullBatch>>
         ELSE <<FALSE, None>>
    ELSE IF c.normalization # "none" THEN <<TRUE, MsgNormalization>>
         ELSE IF c.momentum # "0.0" THEN <<TRUE, MsgMomentum>>
         ELSE <<FALSE, None>>

\* skip testing the momentum before the normalization
SkipMomentumFirst(c, cuda) ==
  IF c.device = "cuda" /\ ~cuda THEN <<TRUE, MsgCuda>>
  ELSE IF ~c.stochastic /\ c.batch_size # "full" THEN <<TRUE, MsgNotStochastic>>
  ELSE IF c.stochastic
    THEN IF c.batch_size = "full" THEN <<TRUE, MsgFullBatch>>
         ELSE IF c.line_search THEN <<TRUE, MsgLineSearch>>
         ELSE <<FALSE, None>>
    ELSE IF c.momentum # "0.0" THEN <<TRUE, MsgMomentum>>
         ELSE IF c.normalization # "none" THEN <<TRUE, MsgNormalization>>
         ELSE <<FALSE, None>>

\* Solver.skip, lines 28-56
SkipOf(c, cuda) ==
  IF c.device = "cuda" /\ ~cuda THEN <<TRUE, MsgCuda>>
  ELSE IF ~c.stochastic /\ c.batch_size # "full" THEN <<TRUE, MsgNotStochastic>>
  ELSE IF c.stochastic
    THEN IF c.batch_size = "full" THEN <<TRUE, MsgFullBatch>>
         ELSE IF c.line_search THEN <<TRUE, MsgLineSearch>>
         ELSE <<FALSE, None>>
    ELSE IF c.normalization # "none" THEN <<TRUE, MsgNormalization>>
         ELSE IF c.momentum # "0.0" THEN <<TRUE, MsgMomentum>>
         ELSE <<FALSE, None>>

Skip ==
  /\ phase = "constructed"
  /\ skipRes' = SkipOf(cfg, cudaAvailable)
  /\ phase' = "skip_checked"
  /\ lastOp' = [op |-> "skip", outcome |-> "returned"]
  /\ UNCHANGED <<cfg, cudaAvailable, input, selfX, x0, beta, result, heap,
                 filters, lastRun>>

\* ------------------------------------------------------- set_objective
\* What the harness or a direct caller can pass as X (with a matching y) and
\* lmbd: a numpy array (benchopt's datasets) or a torch tensor; a CUDA tensor
\* exists only where CUDA does.  lmbd is a Python float or a numpy scalar.
\* Row counts: an empty dataset, and one that the batch size 32 cuts into
\* two batches and the larger batch sizes into one.
SampleSizes == {0, 33}

Inputs(cuda) ==
  {i \in [kind : {"ndarray", "tensor"}, dtype : {"float32", "float64"},
          device : {"cpu", "cuda"}, n_samples : SampleSizes,
          n_features : 1..MaxFeatures, lmbd : {"float", "np.float64"}] :
     /\ i.kind = "ndarray" => i.device = "cpu"
     /\ i.device = "cuda" => cuda}

\* the smallest storage id that is not in use
Fresh(h) ==
  CHOOSE s \in 1..(Cardinality(DOMAIN h) + 1) :
    /\ s \notin DOMAIN h
    /\ \A t \in 1..(s - 1) : t \in DOMAIN h

\* storages no live reference names are dropped
Collect(h, roots) == [s \in (DOMAIN h) \cap roots |-> h[s]]

\* Solver.set_objective, lines 58-68.
\*   line 62: .to(device) raises when the device is 'cuda' and there is none;
\*   line 67: X is the argument, not self.X: a numpy array's dtype is no
\*            torch.dtype (TypeError), and before numpy 2 it has no .device
\*            (AttributeError); a tensor's dtype and device are taken as is.
\* self.lmbd, self.X and self.y are assigned before line 67 is reached.
SetObjective(inp) ==
  /\ phase = "skip_checked"
  /\ input' = inp
  /\ IF cfg.device = "cuda" /\ ~cudaAvailable
       THEN /\ phase' = "setup_failed"
            /\ lastOp' = [op |-> "set_objective", outcome |-> "RuntimeError"]
            /\ UNCHANGED <<selfX, x0, heap>>
       ELSE /\ selfX' = [st |-> 0, dtype |-> inp.dtype, device |-> cfg.device]
            /\ IF inp.kind = "ndarray"
                 THEN /\ phase' = "setup_failed"
                      /\ \E e \in {"TypeError", "AttributeError"} :
                           lastOp' = [op |-> "set_objective", outcome |-> e]
                      /\ UNCHANGED <<x0, heap>>
                 ELSE /\ phase' = "ready"
                      /\ x0' = [st |-> Fresh(heap), dtype |-> inp.dtype,
                                device |-> inp.device]
                      /\ heap' = (Fresh(heap) :> Zeros(inp.n_features)) @@ heap
                      /\ lastOp' = [op |-> "set_objective", outcome |-> "returned"]
  /\ UNCHANGED <<cfg, cudaAvailable, skipRes, beta, result, filters, lastRun>>

\* the caller of set_objective, with any data it can have
CallSetObjective ==
  /\ phase = "skip_checked"
  /\ \E inp \in Inputs(cudaAvailable) : SetObjective(inp)

\* ------------------------------------------------------ name resolution
\* The names the module binds at top level, lines 1-12: what a free name in
\* a method body can resolve to once its local and enclosing scopes miss.
\* a module that also binds the data at top level, as a script would
ModuleGlobalsWithData ==
  {"warnings", "os", "BaseSolver", "safe_import_context", "TensorDataset",
   "import_ctx", "torch", "DataLoader", "chop", "Solver", "X", "y"}

ModuleGlobals ==
  {"warnings", "os", "BaseSolver", "safe_import_context", "TensorDataset",
   "import_ctx", "torch", "DataLoader", "chop", "Solver"}

\* the names bound in run_stochastic when line 89 runs (lines 70-87)
StochasticLocals ==
  {"self", "n_iter", "dataset", "loader", "x", "optimizer", "counter"}

\* the names the closure logloss sees: its parameter and run_full_batch's
\* locals (lines 105-129)
ClosureLocals == {"self", "n_iter", "x0", "logloss", "x", "step"}

Resolves(name, locals) == name \in locals \cup ModuleGlobals

\* lmbd / X.size(0), lines 89 and 115: a Python float divided by the int 0
\* raises; a numpy scalar gives inf or nan under a RuntimeWarning
Divide(lmbd, n) ==
  IF n = 0 /\ lmbd = "float" THEN "ZeroDivisionError" ELSE "ok"

\* ------------------------------------------------------ run_stochastic
BatchInt(b) ==
  CASE b = "32" -> 32 [] b = "128" -> 128 [] b = "200" -> 200

\* len(DataLoader(dataset, batch_size=b)), drop_last left at False (line 73)
NBatches(n, b) == (n + b - 1) \div b

\* optimizer.step() (line 101) and one iteration of minimize_pgd (line 129)
\* belong to chop; all the model keeps of an update is that it moves the point
Step(x) == [i \in DOMAIN x |-> x[i] + 1]

RECURSIVE StepN(_, _)
StepN(x, k) == IF k = 0 THEN x ELSE StepN(Step(x), k - 1)

\* one pass of `for data, target in loader` from batch b on (lines 93-101);
\* `data @ x` (line 97) raises when x and self.X live on different devices
RECURSIVE ForPass(_, _, _, _, _)
ForPass(counter, x, b, nb, sameDevice) ==
  IF b > nb THEN [outcome |-> "returned", counter |-> counter, x |-> x]
  ELSE IF ~sameDevice
    THEN [outcome |-> "RuntimeError", counter |-> counter + 1, x |-> x]
    ELSE ForPass(counter + 1, Step(x), b + 1, nb, sameDevice)

\* `while counter < n_iter` (lines 91-101): the condition is read between
\* passes only, and a pass over an empty loader leaves the counter alone
RECURSIVE WhileLoop(_, _, _, _, _)
WhileLoop(counter, x, n, nb, sameDevice) ==
  IF ~(counter < n) THEN [outcome |-> "returned", counter |-> counter, x |-> x]
  ELSE IF nb = 0 THEN [outcome |-> "diverges", counter |-> counter, x |-> x]
  ELSE LET p == ForPass(counter, x, 1, nb, sameDevice)
       IN IF p.outcome = "returned"
            THEN WhileLoop(p.counter, p.x, n, nb, sameDevice)
            ELSE p

\* a solver test that lets every name through
SupportedAny(solver) == TRUE

\* `if self.solver == 'pgd'`, lines 79 and 122
Supported(solver) == solver = "pgd"

\* What a runner leaves behind: how the call ended, the optimizer.step()
\* calls and iterations made, the calls into chop, and the value for
\* self.beta when the call got as far as assigning it.
Ended(outcome, chop_calls) ==
  [outcome |-> outcome, steps |-> 0, chop_calls |-> chop_calls, x |-> <<>>]

\* Solver.run_stochastic, lines 70-103, started from the value x0 holds:
\*   line 73: DataLoader takes a positive int as batch_size, 'full' is none;
\*   line 84: any solver but 'pgd';
\*   line 89: X is a name of no scope of this function.
RunStochastic(start, n) ==
  IF cfg.batch_size = "full" THEN Ended("ValueError", 0)          \* line 73
  ELSE IF ~Supported(cfg.solver) THEN Ended("NotImplementedError", 0)
  ELSE IF ~Resolves("X", StochasticLocals) THEN Ended("NameError", 1)
  ELSE IF Divide(input.lmbd, input.n_samples) # "ok"
    THEN Ended(Divide(input.lmbd, input.n_samples), 1)
  ELSE LET w == WhileLoop(0, start, n,
                          NBatches(input.n_samples, BatchInt(cfg.batch_size)),
                          x0.device = selfX.device)
       IN [outcome |-> w.outcome,
           steps |-> IF w.outcome = "returned" THEN w.counter ELSE 0,
           chop_calls |-> 1, x |-> w.x]

\* Solver.run_full_batch, lines 105-137.  minimize_pgd evaluates the closure
\* before its first iteration, and the closure reads X and y (lines 115-117).
RunFullBatch(start, n) ==
  IF ~Supported(cfg.solver) THEN Ended("NotImplementedError", 0)  \* line 135
  ELSE IF ~Resolves("X", ClosureLocals) THEN Ended("NameError", 1)
  ELSE IF Divide(input.lmbd, input.n_samples) # "ok"
    THEN Ended(Divide(input.lmbd, input.n_samples), 1)
  ELSE [outcome |-> "returned", steps |-> n, chop_calls |-> 1,
        x |-> StepN(start, n)]

\* ------------------------------------------------------------------ run
IgnoreRuntimeWarning == "ignore::RuntimeWarning"

\* warnings.filterwarnings(action, category=...): the entry goes to the
\* front of the list, an equal entry further down is removed (line 145)
FilterWarnings(f, entry) == <<entry>> \o SelectSeq(f, LAMBDA e : e # entry)

\* the first matching entry decides; no entry for RuntimeWarning means shown
Suppressed(f) ==
  /\ \E i \in DOMAIN f : f[i] \in {IgnoreRuntimeWarning, "error::RuntimeWarning"}
  /\ LET first == CHOOSE i \in DOMAIN f :
            /\ f[i] \in {IgnoreRuntimeWarning, "error::RuntimeWarning"}
            /\ \A j \in 1..(i - 1) :
                 f[j] \notin {IgnoreRuntimeWarning, "error::RuntimeWarning"}
     IN f[first] = IgnoreRuntimeWarning

\* lines 147-150
Dispatch(start, n) ==
  IF cfg.stochastic THEN RunStochastic(start, n) ELSE RunFullBatch(start, n)

\* run without the n_iter == 0 branch
ShortCircuitNever(n) == FALSE

\* `if n_iter == 0`, line 141
ShortCircuit(n) == n = 0

\* Solver.run, lines 139-150, with the runner it calls
Run(n) ==
  /\ phase = "ready"
  /\ IF ShortCircuit(n)
       THEN /\ beta' = x0
            /\ heap' = Collect(heap, {x0.st, result.st})
            /\ lastRun' = [called |-> TRUE, n_iter |-> n, outcome |-> "returned",
                           steps |-> 0, chop_calls |-> 0, dispatch |-> "none",
                           filtersBefore |-> filters, filtersAtDispatch |-> filters]
            /\ lastOp' = [op |-> "run", outcome |-> "returned"]
            /\ UNCHANGED <<filters, phase>>
       ELSE LET r == Dispatch(heap[x0.st], n)
                s == Fresh(heap)
            IN /\ filters' = FilterWarnings(filters, IgnoreRuntimeWarning)
               /\ IF r.outcome = "returned"
                    THEN /\ beta' = [st |-> s, dtype |-> x0.dtype,
                                     device |-> x0.device]
                         /\ heap' = Collect((s :> r.x) @@ heap,
                                            {x0.st, s, result.st})
                    ELSE UNCHANGED <<beta, heap>>
               /\ phase' = IF r.outcome = "diverges" THEN "hung" ELSE phase
               /\ lastRun' = [called |-> TRUE, n_iter |-> n, outcome |-> r.outcome,
                              steps |-> r.steps, chop_calls |-> r.chop_calls,
                              dispatch |-> IF cfg.stochastic THEN "stochastic"
                                           ELSE "full_batch",
                              filtersBefore |-> filters,
                              filtersAtDispatch |-> filters']
               /\ lastOp' = [op |-> "run", outcome |-> r.outcome]
  /\ UNCHANGED <<cfg, cudaAvailable, skipRes, input, selfX, x0, result>>

\* ----------------------------------------------------------- get_result
\* A value on its way through line 153: the storage whose contents it has,
\* whether it still is that storage or a copy of its own, and its device.
Ref(t) == [src |-> t.st, shared |-> TRUE, device |-> t.device]

\* Tensor.detach(): a tensor on the same storage
Detach(r) == r

\* Tensor.cpu(): the tensor itself when it is on the cpu, else a copy there
Cpu(r) == IF r.device = "cpu" THEN r
          ELSE [r EXCEPT !.shared = FALSE, !.device = "cpu"]

\* Tensor.numpy(): an ndarray on the tensor's memory
Numpy(r) == r

\* ndarray.ravel(): a view where it can be
NumpyRavel(r) == r

\* ndarray.flatten(): always a copy
NumpyFlatten(r) == [r EXCEPT !.shared = FALSE]

\* Solver.get_result, lines 152-153
GetResult ==
  /\ phase = "ready"
  /\ IF beta = NoTensor
       THEN /\ lastOp' = [op |-> "get_result", outcome |-> "AttributeError"]
            /\ UNCHANGED <<result, heap>>
       ELSE LET r == NumpyFlatten(Numpy(Cpu(Detach(Ref(beta)))))
                h == Collect(heap, {x0.st, beta.st})
                s == IF r.shared THEN r.src ELSE Fresh(h)
            IN /\ result' = [st |-> s]
               /\ heap' = IF r.shared THEN h ELSE (s :> heap[r.src]) @@ h
               /\ lastOp' = [op |-> "get_result", outcome |-> "returned"]
  /\ UNCHANGED <<cfg, cudaAvailable, phase, skipRes, input, selfX, x0, beta,
                 filters, lastRun>>

\* The caller writes into the array get_result returned: out[i] = 1.0
WriteResult(i) ==
  /\ phase = "ready"
  /\ result # NoArray
  /\ i \in DOMAIN heap[result.st]
  /\ heap[result.st][i] # 1
  /\ heap' = [heap EXCEPT ![result.st][i] = 1]
  /\ lastOp' = [op |-> "write", outcome |-> "returned"]
  /\ UNCHANGED <<cfg, cudaAvailable, phase, skipRes, input, selfX, x0, beta,
                 result, filters, lastRun>>

\* ------------------------------------------------------- specification
Init ==
  /\ cfg \in Configs
  /\ cudaAvailable \in BOOLEAN
  /\ phase = "constructed"
  /\ skipRes = NoSkip
  /\ input = NoInput
  /\ selfX = NoTensor
  /\ x0 = NoTensor
  /\ beta = NoTensor
  /\ result = NoArray
  /\ heap = <<>>
  /\ filters = <<>>
  /\ lastOp = NoOp
  /\ lastRun = NoRun

Next ==
  \/ Skip
  \/ CallSetObjective
  \/ \E n \in 0..MaxIter : Run(n)
  \/ GetResult
  \/ \E i \in 1..MaxFeatures : WriteResult(i)

Spec == Init /\ [][Next]_vars

\* ================================================================ claims
Ran == lastRun.called
NFeatures == input.n_features

\* The rules of the configuration validator, in the order the specification
\* lists them: 1, 2, 3a, 3b, 4a, 4b.
RuleMatches(k, c, cuda) ==
  CASE k = 1 -> c.device = "cuda" /\ ~cuda
    [] k = 2 -> ~c.stochastic /\ c.batch_size # "full"
    [] k = 3 -> c.stochastic /\ c.batch_size = "full"
    [] k = 4 -> c.stochastic /\ c.line_search
    [] k = 5 -> ~c.stochastic /\ c.normalization # "none"
    [] k = 6 -> ~c.stochastic /\ c.momentum # "0.0"

RuleReason(k) ==
  CASE k = 1 -> MsgCuda
    [] k = 2 -> MsgNotStochastic
    [] k = 3 -> MsgFullBatch
    [] k = 4 -> MsgLineSearch
    [] k = 5 -> MsgNormalization
    [] k = 6 -> MsgMomentum

RuleIds == 1..6

FirstMatch(c, cuda) ==
  IF \E k \in RuleIds : RuleMatches(k, c, cuda)
    THEN LET k == CHOOSE j \in RuleIds :
                    /\ RuleMatches(j, c, cuda)
                    /\ \A i \in 1..(j - 1) : ~RuleMatches(i, c, cuda)
         IN <<TRUE, RuleReason(k)>>
    ELSE <<FALSE, None>>

\* skip let the configuration through
Accepted == skipRes = <<FALSE, None>>

\* C1 (as claimed): a stochastic run of a configuration skip accepted, with
\* solver 'pgd' and n_iter >= 1, returns after exactly n_iter optimizer steps.
C1_ExactlyNIterSteps ==
  (Ran /\ Accepted /\ lastRun.dispatch = "stochastic" /\ cfg.solver = "pgd"
       /\ lastRun.n_iter >= 1)
    => (lastRun.outcome = "returned" /\ lastRun.steps = lastRun.n_iter)

\* C2: every run call ends, by returning or by raising; none loops forever.
C2_RunTerminates ==
  /\ phase # "hung"
  /\ Ran => lastRun.outcome # "diverges"

\* the stochastic runner was entered with a budget, an empty dataset and a
\* numpy lmbd, and the call ended
C2_Witness ==
  /\ Ran /\ lastRun.n_iter >= 1 /\ lastRun.dispatch = "stochastic"
  /\ cfg.solver = "pgd" /\ cfg.batch_size # "full"
  /\ input.n_samples = 0 /\ input.lmbd = "np.float64"
  /\ lastRun.outcome = "NameError"

\* C3: skip returns the pair of the first matching rule in the order
\* 1, 2, 3a, 3b, 4a, 4b, and (False, None) when no rule matches.
C3_SkipFirstMatchingRule ==
  phase # "constructed" => skipRes = FirstMatch(cfg, cudaAvailable)

\* two rules match (1 and 4b) and the earlier one gave the reason
C3_Witness ==
  /\ phase = "skip_checked"
  /\ RuleMatches(1, cfg, cudaAvailable) /\ RuleMatches(6, cfg, cudaAvailable)
  /\ skipRes = <<TRUE, MsgCuda>>

\* C4 (as claimed): with a solver name other than 'pgd', every run call ends
\* in NotImplementedError, makes no optimizer step and stores no result.
C4_OtherSolverNotImplemented ==
  [][(lastOp'.op = "run" /\ cfg.solver # "pgd")
       => /\ lastRun'.outcome = "NotImplementedError"
          /\ lastRun'.steps = 0
          /\ beta' = beta]_vars

\* C4 (amended): with a solver name other than 'pgd', a run call with
\* n_iter # 0, in full-batch mode or in stochastic mode with an integer batch
\* size, ends in NotImplementedError, calls nothing of chop, makes no
\* optimizer step and stores no result.
C4_OtherSolverNotImplementedNonZero ==
  [][(lastOp'.op = "run" /\ cfg.solver # "pgd" /\ lastRun'.n_iter # 0
        /\ (cfg.stochastic => cfg.batch_size # "full"))
       => /\ lastRun'.outcome = "NotImplementedError"
          /\ lastRun'.steps = 0
          /\ lastRun'.chop_calls = 0
          /\ beta' = beta
          /\ heap' = heap]_vars

\* a run with a budget ended in NotImplementedError after an earlier run(0)
\* had stored a result, which is still there
C4_Witness ==
  /\ lastOp.op = "run" /\ cfg.solver # "pgd" /\ lastRun.n_iter # 0
  /\ cfg.stochastic
  /\ lastRun.outcome = "NotImplementedError"
  /\ beta = x0

\* C5: after set_objective, run(0) returns without calling into chop, and a
\* get_result after it returns the zero vector of length n_features, whatever
\* the configuration.
C5_RunZeroGivesZeros ==
  /\ (Ran /\ lastRun.n_iter = 0)
       => /\ lastRun.outcome = "returned"
          /\ lastRun.chop_calls = 0
          /\ lastRun.steps = 0
          /\ beta = x0
  /\ (Ran /\ lastRun.n_iter = 0 /\ lastOp.op = "get_result")
       => /\ lastOp.outcome = "returned"
          /\ heap[result.st] = Zeros(NFeatures)

\* run(0) then get_result on a configuration no runner accepts
C5_Witness ==
  /\ Ran /\ lastRun.n_iter = 0 /\ lastOp.op = "get_result"
  /\ cfg.solver = "other" /\ cfg.stochastic /\ cfg.batch_size = "full"
  /\ cfg.line_search /\ cfg.normalization = "sign" /\ cfg.momentum = "0.9"
  /\ heap[result.st] = Zeros(NFeatures)

\* What run(n) gives as the first call after set_objective: the runner is
\* started from the zero vector.
FirstRun(n) ==
  IF n = 0 THEN [outcome |-> "returned", x |-> Zeros(NFeatures)]
  ELSE LET r == Dispatch(Zeros(NFeatures), n)
       IN [outcome |-> r.outcome, x |-> r.x]

\* C6: x0 stays the zero vector through every sequence of calls, and a run
\* call ends as the same call made first on a fresh solver ends.
C6_RunsRestartFromZero ==
  /\ phase = "ready" => heap[x0.st] = Zeros(NFeatures)
  /\ (Ran /\ lastOp.op = "run")
       => /\ lastRun.outcome = FirstRun(lastRun.n_iter).outcome
          /\ lastRun.outcome = "returned"
               => heap[beta.st] = FirstRun(lastRun.n_iter).x

\* a run call made after the caller wrote into an array it got earlier
C6_Witness ==
  /\ Ran /\ lastOp.op = "run" /\ lastRun.outcome = "returned"
  /\ result # NoArray
  /\ heap[result.st] # Zeros(NFeatures)
  /\ heap[beta.st] = Zeros(NFeatures)

\* C7: the array get_result returns is on a storage of its own; get_result
\* and the caller's writes to the array leave x0, beta and their contents
\* as they were, and get_result returns beta's contents.
C7_ResultSharesNoStorage ==
  /\ [](result # NoArray => result.st \notin {x0.st, beta.st})
  /\ []((lastOp.op = "get_result" /\ lastOp.outcome = "returned")
          => heap[result.st] = heap[beta.st])
  /\ [][lastOp'.op \in {"get_result", "write"}
          => /\ x0' = x0 /\ beta' = beta
             /\ heap'[x0.st] = heap[x0.st]
             /\ beta # NoTensor => heap'[beta.st] = heap[beta.st]]_vars

\* the caller wrote into the array it got, and beta does not show the write
C7_Witness ==
  /\ lastOp.op = "write"
  /\ beta # NoTensor
  /\ heap[result.st] # heap[beta.st]

\* C8 (as claimed): once set_objective has returned, for a configuration
\* skip accepted, x0 is the zero vector of length n_features with the dtype
\* and the device of self.X.
C8_X0MatchesSelfX ==
  (phase = "ready" /\ Accepted)
    => /\ heap[x0.st] = Zeros(NFeatures)
       /\ x0.dtype = selfX.dtype
       /\ x0.device = selfX.device

\* C9 (as claimed): a run with n_iter # 0, of a configuration skip accepted,
\* has RuntimeWarning suppressed when the runner is dispatched, and leaves the
\* warnings filters as it found them.
C9_SuppressionScopedToRun ==
  (Ran /\ Accepted /\ lastOp.op = "run" /\ lastRun.n_iter # 0)
    => /\ Suppressed(lastRun.filtersAtDispatch)
       /\ filters = lastRun.filtersBefore

\* C10: when skip returned (False, None), the stochastic runner is entered
\* with an integer batch size and without line search only, the full-batch
\* runner with batch size 'full', normalization 'none' and momentum 0 only,
\* and no run is made on 'cuda' without CUDA.
C10_HarnessRunsValidConfigs ==
  (Ran /\ Accepted)
    => /\ lastRun.dispatch = "stochastic"
            => (cfg.batch_size # "full" /\ ~cfg.line_search)
       /\ lastRun.dispatch = "full_batch"
            => /\ cfg.batch_size = "full"
               /\ cfg.normalization = "none"
               /\ cfg.momentum = "0.0"
       /\ ~(cfg.device = "cuda" /\ ~cudaAvailable)

\* the stochastic runner was entered after skip accepted a configuration
C10_Witness ==
  /\ Ran /\ Accepted
  /\ lastRun.dispatch = "stochastic"
  /\ cfg.device = "cuda" /\ cfg.normalization = "Linf" /\ cfg.momentum = "0.9"

====
